---- MODULE Spec2Model ----
(***************************************************************************)
(* ReactiveEntityManager.query / ReactiveEntityManager.transaction:        *)
(* acquisition and release of a query runner, the commit/rollback          *)
(* protocol, the released-manager guard and the promise -> observable      *)
(* bridge.                                                                 *)
(*                                                                         *)
(* One Manager instance.  query(...) and transaction(...) each build an    *)
(* async closure promiseFn and hand it, uncalled, to                       *)
(* Rx.Observable.fromPromise.  A subscription runs promiseFn; every await  *)
(* of promiseFn is a suspension point, so each awaited call is modelled as *)
(* two steps: the call is made (event "call"), and later it settles (event *)
(* "ok" or "err") and the closure runs on to its next await.               *)
(***************************************************************************)
EXTENDS Naturals, Sequences, FiniteSets

\* Number of subscriptions (executions of promiseFn) over all streams.
MaxRuns == 2

\* The two methods that return a stream built from a closure.  One stream per
\* method is followed: a second call of a method builds the same closure over
\* the same Manager, and what its query or unit of work does is drawn anew on
\* every run in any case.
Methods == {"query", "transaction"}

\* What a runner query or a unit of work resolves with: one value, which
\* differs from `undefined`.
Values == {1}

\* `undefined` as a result value.
undefined == 0

\* A QueryRunnerProvider is named by who constructed it, the Manager or the
\* closure of one call, and by its number among the providers constructed.
NoProvider == <<"none", 0>>
ManagerProvider(n) == <<"manager", n>>
CallProvider(n) == <<"call", n>>

VARIABLES
    useSingleDatabaseConnection,  \* constructor argument, fixed per Manager
    isReleased,                   \* BaseEntityManager.isReleased
    queryRunnerProvider,          \* BaseEntityManager.queryRunnerProvider or NoProvider
    providersCreated,             \* number of QueryRunnerProvider objects constructed
    streams,                      \* methods whose observable has been returned
    subscriptions,                \* subscriptions[s]: number of subscribe() calls on stream s
    runs,                         \* executions of promiseFn, in start order
    unsubscribed,                 \* runs whose consumer stopped observing while in flight
    call,                         \* a call of persist/remove/find*: method and arguments
    forwarded                     \* the Repository call that call was dispatched to

vars == <<useSingleDatabaseConnection, isReleased, queryRunnerProvider,
          providersCreated, streams, subscriptions, runs, unsubscribed, call, forwarded>>

\* What query, transaction and their runs leave alone.
dispatch == <<call, forwarded>>

\* The error a run is rejected with when the Manager is released.
EntityManagerAlreadyReleasedError == "EntityManagerAlreadyReleasedError"

\* The error a failing awaited call rejects with is named after the call.
ErrorOf(op) == op

\* The runner a provider hands out: one connection per provider.
provide(provider) == <<"QueryRunner", provider[1], provider[2]>>
NoRunner == <<"QueryRunner", "none", 0>>

----------------------------------------------------------------------------
\* One entry of a run's effect log.
Ev(run, op, ev, v) ==
    [op |-> op, ev |-> ev, provider |-> run.queryRunnerProvider,
     runner |-> run.queryRunner, value |-> v]

\* The closure makes an awaited call and suspends on it.
Call(run, op) ==
    [run EXCEPT !.pc = op, !.log = Append(@, Ev(run, op, "call", undefined))]

\* The awaited call the closure is suspended on settles: it resolves with v
\* (undefined for the void calls) or rejects.
Settled(run, ok, v) ==
    [run EXCEPT !.log = Append(@, Ev(run, run.pc, IF ok THEN "ok" ELSE "err",
                                     IF ok THEN v ELSE undefined))]

\* The promise of promiseFn settles and the observable delivers it.
Resolve(run, value) ==
    [run EXCEPT !.pc = "done", !.outcome = [type |-> "value", value |-> value, error |-> ""]]

Reject(run, error) ==
    [run EXCEPT !.pc = "done", !.outcome = [type |-> "error", value |-> undefined, error |-> error]]

\* A fresh execution of the promiseFn of method kind.
NewRun(kind) ==
    [kind |-> kind, pc |-> "start",
     queryRunnerProvider |-> NoProvider, queryRunner |-> NoRunner,
     completion |-> "none", result |-> undefined, err |-> "",
     log |-> <<>>,
     outcome |-> [type |-> "pending", value |-> undefined, error |-> ""]]

----------------------------------------------------------------------------
\* Variant: the released-manager guard is missing.
mustThrowReleased_unguarded == FALSE

\* Variant: the guard tests the released flag in either mode.
mustThrowReleased_inEitherMode == isReleased

\* Both closures start with the released-manager guard.
mustThrowReleased == useSingleDatabaseConnection /\ isReleased

\* What reading this.queryRunnerProvider gives: in single-connection mode the
\* Manager's one provider, constructed when first read; nothing in per-call
\* mode.
sharedQueryRunnerProvider ==
    IF ~useSingleDatabaseConnection THEN NoProvider
    ELSE IF queryRunnerProvider = NoProvider THEN ManagerProvider(providersCreated + 1)
    ELSE queryRunnerProvider

\* Variant: the Manager's provider is ignored and one is always constructed.
selectQueryRunnerProvider_alwaysNew == CallProvider(providersCreated + 1)

\* this.queryRunnerProvider || new QueryRunnerProvider(this.connection.driver)
selectQueryRunnerProvider ==
    IF sharedQueryRunnerProvider # NoProvider
    THEN sharedQueryRunnerProvider
    ELSE CallProvider(providersCreated + 1)

\* promiseFn up to its first await: guard, provider, provide() is called.
promiseFn(run) ==
    IF mustThrowReleased
    THEN Reject(run, EntityManagerAlreadyReleasedError)
    ELSE Call([run EXCEPT !.queryRunnerProvider = selectQueryRunnerProvider], "provide")

\* Variant: the released-manager guard is evaluated again after the await.
afterProvide_guardedAgain(run, ok) ==
    IF ok
    THEN LET r == Settled([run EXCEPT !.queryRunner = provide(run.queryRunnerProvider)],
                          TRUE, undefined) IN
         IF mustThrowReleased THEN Reject(r, EntityManagerAlreadyReleasedError) ELSE r
    ELSE Reject(Settled(run, FALSE, undefined), ErrorOf("provide"))

\* Variant: provide() is awaited inside the try block, so its failure runs
\* the finally block.
afterProvide_insideTry(run, ok) ==
    IF ok
    THEN Settled([run EXCEPT !.queryRunner = provide(run.queryRunnerProvider)], TRUE, undefined)
    ELSE Call([Settled(run, FALSE, undefined) EXCEPT !.err = ErrorOf("provide"),
                                                     !.completion = "throw"], "release")

\* const queryRunner = await queryRunnerProvider.provide(), outside any try.
afterProvide(run, ok) ==
    IF ok
    THEN Settled([run EXCEPT !.queryRunner = provide(run.queryRunnerProvider)], TRUE, undefined)
    ELSE Reject(Settled(run, FALSE, undefined), ErrorOf("provide"))

\* Variant: release sits at the end of the try block, not in a finally.
finally_onlyAfterReturn(run) ==
    IF run.completion = "return" THEN Call(run, "release") ELSE Reject(run, run.err)

\* finally { await queryRunnerProvider.release(queryRunner); }
finally(run) == Call(run, "release")

\* The awaited release settles: the pending return or throw of the try
\* statement completes the closure, unless release itself threw.
afterRelease(run, ok) ==
    LET r == Settled(run, ok, undefined) IN
    IF ~ok THEN Reject(r, ErrorOf("release"))
    ELSE IF r.completion = "return" THEN Resolve(r, r.result)
    ELSE Reject(r, r.err)

\* query: after provide, try { const result = await queryRunner.query(query)
query_afterProvide(run, ok) ==
    IF ok THEN Call(afterProvide(run, TRUE), "query") ELSE afterProvide(run, FALSE)

\* Variant: release is called in the finally block but not awaited.
query_afterQuery_releaseNotAwaited(run, ok, v) ==
    LET r == Settled(run, ok, v) IN
    IF ok
    THEN Resolve(Call([r EXCEPT !.result = v, !.completion = "return"], "release"), v)
    ELSE Reject(Call([r EXCEPT !.err = ErrorOf("query"), !.completion = "throw"], "release"),
                ErrorOf("query"))

\* query: return Promise.resolve(result), or the rejection propagates; then finally.
query_afterQuery(run, ok, v) ==
    LET r == Settled(run, ok, v) IN
    IF ok
    THEN finally([r EXCEPT !.result = v, !.completion = "return"])
    ELSE finally([r EXCEPT !.err = ErrorOf("query"), !.completion = "throw"])

\* transaction: after provide, try { await queryRunner.beginTransaction()
transaction_afterProvide(run, ok) ==
    IF ok THEN Call(afterProvide(run, TRUE), "beginTransaction") ELSE afterProvide(run, FALSE)

\* catch (err) { await queryRunner.rollbackTransaction(); ...
catch(run, err) == Call([run EXCEPT !.err = err], "rollbackTransaction")

\* Variant: the outcome of beginTransaction is not looked at.
transaction_afterBegin_failureIgnored(run, ok) ==
    Call(Settled(run, ok, undefined), "runInTransaction")

\* Variant: beginTransaction is awaited outside the try/catch.
transaction_afterBegin_noCatch(run, ok) ==
    LET r == Settled(run, ok, undefined) IN
    IF ok THEN Call(r, "runInTransaction")
    ELSE finally([r EXCEPT !.err = ErrorOf("beginTransaction"), !.completion = "throw"])

\* transaction: const result = await runInTransaction()
transaction_afterBegin(run, ok) ==
    LET r == Settled(run, ok, undefined) IN
    IF ok THEN Call(r, "runInTransaction") ELSE catch(r, ErrorOf("beginTransaction"))

\* Variant: a failed unit of work is not rolled back.
transaction_afterRunInTransaction_noRollback(run, ok, v) ==
    LET r == Settled(run, ok, v) IN
    IF ok
    THEN Call([r EXCEPT !.result = v], "commitTransaction")
    ELSE finally([r EXCEPT !.err = ErrorOf("runInTransaction"), !.completion = "throw"])

\* Variant: commitTransaction() is called but not awaited.
transaction_afterRunInTransaction_commitNotAwaited(run, ok, v) ==
    LET r == Settled(run, ok, v) IN
    IF ok
    THEN finally([Call([r EXCEPT !.result = v], "commitTransaction")
                     EXCEPT !.completion = "return"])
    ELSE Call([r EXCEPT !.err = ErrorOf("runInTransaction")], "rollbackTransaction")

\* transaction: await queryRunner.commitTransaction()
transaction_afterRunInTransaction(run, ok, v) ==
    LET r == Settled(run, ok, v) IN
    IF ok
    THEN Call([r EXCEPT !.result = v], "commitTransaction")
    ELSE catch(r, ErrorOf("runInTransaction"))

\* Variant: return Promise.resolve() without the result.
transaction_afterCommit_dropsResult(run, ok) ==
    LET r == Settled(run, ok, undefined) IN
    IF ok
    THEN finally([r EXCEPT !.completion = "return", !.result = undefined])
    ELSE Call([r EXCEPT !.err = ErrorOf("commitTransaction")], "rollbackTransaction")

\* transaction: return Promise.resolve(result); then finally.
transaction_afterCommit(run, ok) ==
    LET r == Settled(run, ok, undefined) IN
    IF ok
    THEN finally([r EXCEPT !.completion = "return"])
    ELSE catch(r, ErrorOf("commitTransaction"))

\* transaction: ... throw err; } then finally.  A rejected rollback leaves the
\* catch block with its own error, before `throw err` is reached.
transaction_afterRollback(run, ok) ==
    LET r == Settled(run, ok, undefined) IN
    IF ok
    THEN finally([r EXCEPT !.completion = "throw"])
    ELSE finally([r EXCEPT !.completion = "throw", !.err = ErrorOf("rollbackTransaction")])

----------------------------------------------------------------------------
\* Argument values of persist / remove / find*: what kind of value it is, the
\* name of its constructor (its runtime type) and its own name.
Undefined == [kind |-> "undefined", ctor |-> "", name |-> ""]
Null == [kind |-> "null", ctor |-> "", name |-> ""]
Class(n) == [kind |-> "class", ctor |-> "Function", name |-> n]
Entity(c, n) == [kind |-> "object", ctor |-> c, name |-> n]
Conditions == [kind |-> "object", ctor |-> "Object", name |-> "conditions"]
Options == [kind |-> "object", ctor |-> "Object", name |-> "options"]

Classes == {Class("Post"), Class("User")}
Entities == {Entity("Post", "post"), Entity("User", "user")}

\* value.constructor
constructorOf(value) == Class(value.ctor)

\* if (value): undefined and null are falsy, objects are truthy.
Truthy(value) == value.kind \notin {"undefined", "null"}

\* The i-th parameter of a call: undefined when the argument was not passed.
Param(args, i) == IF Len(args) >= i THEN args[i] ELSE Undefined

NoCall == [method |-> "", args |-> <<>>]
NotForwarded == [target |-> Undefined, method |-> "", args |-> <<>>]

\* The calls of persist and remove: (entity) or (target, entity).
EntityCalls ==
    {[method |-> m, args |-> a] :
        m \in {"persist", "remove"},
        a \in {<<e>> : e \in Entities}
              \cup {<<c, e>> : c \in Classes, e \in Entities \cup {Undefined}}}

\* The calls of find, findAndCount and findOne: the entity class and up to two
\* optional arguments.
FindCalls ==
    {[method |-> m, args |-> a] :
        m \in {"find", "findAndCount", "findOne"},
        a \in {<<c>> : c \in Classes}
              \cup {<<c, x>> : c \in Classes, x \in {Undefined, Null, Conditions, Options}}
              \cup {<<c, x, o>> : c \in Classes, x \in {Undefined, Null, Conditions, Options},
                                 o \in {Undefined, Null, Options}}}

\* Variant: the target is always taken from the first argument's runtime type.
targetOf_alwaysRuntimeType(args) == constructorOf(args[1])

\* const target = arguments.length === 2 ? targetOrEntity : targetOrEntity.constructor
targetOf(args) == IF Len(args) = 2 THEN args[1] ELSE constructorOf(args[1])

\* const entity = arguments.length === 2 ? maybeEntity : targetOrEntity
entityOf(args) == IF Len(args) = 2 THEN args[2] ELSE args[1]

\* if (conditionsOrFindOptions && options) ... else if (conditionsOrFindOptions) ... else ...
findArguments(conditionsOrFindOptions, options) ==
    IF Truthy(conditionsOrFindOptions) /\ Truthy(options)
    THEN <<conditionsOrFindOptions, options>>
    ELSE IF Truthy(conditionsOrFindOptions) THEN <<conditionsOrFindOptions>>
    ELSE <<>>

\* this.getReactiveRepository(target).method(...args)
Forward(target, method, args) ==
    /\ forwarded = NotForwarded
    /\ forwarded' = [target |-> target, method |-> method, args |-> args]
    /\ UNCHANGED <<useSingleDatabaseConnection, isReleased, queryRunnerProvider,
                   providersCreated, streams, subscriptions, runs, unsubscribed, call>>

persist ==
    /\ call.method = "persist"
    /\ Forward(targetOf(call.args), "persist", <<entityOf(call.args)>>)

remove ==
    /\ call.method = "remove"
    /\ Forward(targetOf(call.args), "remove", <<entityOf(call.args)>>)

find ==
    /\ call.method = "find"
    /\ Forward(call.args[1], "find", findArguments(Param(call.args, 2), Param(call.args, 3)))

findAndCount ==
    /\ call.method = "findAndCount"
    /\ Forward(call.args[1], "findAndCount",
               findArguments(Param(call.args, 2), Param(call.args, 3)))

findOne ==
    /\ call.method = "findOne"
    /\ Forward(call.args[1], "findOne", findArguments(Param(call.args, 2), Param(call.args, 3)))

----------------------------------------------------------------------------
Init ==
    /\ useSingleDatabaseConnection \in BOOLEAN
    /\ isReleased = FALSE
    /\ queryRunnerProvider = NoProvider
    /\ providersCreated = 0
    /\ streams = {}
    /\ subscriptions = [s \in Methods |-> 0]
    /\ runs = <<>>
    /\ unsubscribed = {}
    /\ call = NoCall
    /\ forwarded = NotForwarded

\* Variant: a closure is invoked only once every earlier run has finished.
Invoke_afterEarlierRuns(kind) ==
    /\ Len(runs) < MaxRuns
    /\ \A r \in DOMAIN runs : runs[r].pc = "done"
    /\ runs' = Append(runs, promiseFn(NewRun(kind)))
    /\ queryRunnerProvider' =
           IF mustThrowReleased THEN queryRunnerProvider ELSE sharedQueryRunnerProvider
    /\ providersCreated' =
           IF runs'[Len(runs')].queryRunnerProvider \in {NoProvider, queryRunnerProvider}
           THEN providersCreated ELSE providersCreated + 1

\* promiseFn of method kind is invoked and runs synchronously up to its first
\* await.
Invoke(kind) ==
    /\ Len(runs) < MaxRuns
    /\ runs' = Append(runs, promiseFn(NewRun(kind)))
    /\ queryRunnerProvider' =
           IF mustThrowReleased THEN queryRunnerProvider ELSE sharedQueryRunnerProvider
    /\ providersCreated' =
           IF runs'[Len(runs')].queryRunnerProvider \in {NoProvider, queryRunnerProvider}
           THEN providersCreated ELSE providersCreated + 1

\* Variant: fromPromise(promiseFn()), the closure is called when query is.
query_eager ==
    /\ "query" \notin streams
    /\ streams' = streams \cup {"query"}
    /\ Invoke("query")
    /\ UNCHANGED <<useSingleDatabaseConnection, isReleased, subscriptions, unsubscribed,
                   dispatch>>

\* query(query): builds promiseFn and returns Rx.Observable.fromPromise(promiseFn).
query ==
    /\ "query" \notin streams
    /\ streams' = streams \cup {"query"}
    /\ UNCHANGED <<useSingleDatabaseConnection, isReleased, queryRunnerProvider,
                   providersCreated, subscriptions, runs, unsubscribed, dispatch>>

\* Variant: fromPromise(promiseFn()), the closure is called when transaction is.
transaction_eager ==
    /\ "transaction" \notin streams
    /\ streams' = streams \cup {"transaction"}
    /\ Invoke("transaction")
    /\ UNCHANGED <<useSingleDatabaseConnection, isReleased, subscriptions, unsubscribed,
                   dispatch>>

\* transaction(runInTransaction): likewise.
transaction ==
    /\ "transaction" \notin streams
    /\ streams' = streams \cup {"transaction"}
    /\ UNCHANGED <<useSingleDatabaseConnection, isReleased, queryRunnerProvider,
                   providersCreated, subscriptions, runs, unsubscribed, dispatch>>

\* A consumer subscribes to stream s: the bridge invokes the stream's promiseFn.
Subscribe(s) ==
    /\ Invoke(s)
    /\ subscriptions' = [subscriptions EXCEPT ![s] = @ + 1]
    /\ UNCHANGED <<useSingleDatabaseConnection, isReleased, streams, unsubscribed, dispatch>>

\* Variant: a suspended closure resumes only while its consumer observes.
Awaiting_whileObserved(r, kind, op) ==
    runs[r].kind = kind /\ runs[r].pc = op /\ r \notin unsubscribed

\* Run r is suspended on the awaited call op.
Awaiting(r, kind, op) == runs[r].kind = kind /\ runs[r].pc = op

Step(r, next) ==
    /\ runs' = [runs EXCEPT ![r] = next]
    /\ UNCHANGED <<useSingleDatabaseConnection, isReleased, queryRunnerProvider,
                   providersCreated, streams, subscriptions, unsubscribed, dispatch>>

QueryProvideSettles(r, ok) ==
    Awaiting(r, "query", "provide") /\ Step(r, query_afterProvide(runs[r], ok))

QuerySettles(r, ok, v) ==
    Awaiting(r, "query", "query") /\ Step(r, query_afterQuery(runs[r], ok, v))

TransactionProvideSettles(r, ok) ==
    Awaiting(r, "transaction", "provide") /\ Step(r, transaction_afterProvide(runs[r], ok))

BeginTransactionSettles(r, ok) ==
    Awaiting(r, "transaction", "beginTransaction") /\ Step(r, transaction_afterBegin(runs[r], ok))

RunInTransactionSettles(r, ok, v) ==
    Awaiting(r, "transaction", "runInTransaction")
    /\ Step(r, transaction_afterRunInTransaction(runs[r], ok, v))

CommitTransactionSettles(r, ok) ==
    Awaiting(r, "transaction", "commitTransaction") /\ Step(r, transaction_afterCommit(runs[r], ok))

RollbackTransactionSettles(r, ok) ==
    Awaiting(r, "transaction", "rollbackTransaction")
    /\ Step(r, transaction_afterRollback(runs[r], ok))

ReleaseSettles(r, ok) ==
    runs[r].pc = "release" /\ Step(r, afterRelease(runs[r], ok))

\* The Manager is disposed from outside: Active -> Released, one way.
ManagerReleased ==
    /\ ~isReleased
    /\ isReleased' = TRUE
    /\ UNCHANGED <<useSingleDatabaseConnection, queryRunnerProvider, providersCreated,
                   streams, subscriptions, runs, unsubscribed, dispatch>>

Next ==
    \/ query
    \/ transaction
    \/ \E s \in streams : Subscribe(s)
    \/ \E r \in DOMAIN runs, ok \in BOOLEAN : QueryProvideSettles(r, ok)
    \/ \E r \in DOMAIN runs, ok \in BOOLEAN, v \in Values : QuerySettles(r, ok, v)
    \/ \E r \in DOMAIN runs, ok \in BOOLEAN : TransactionProvideSettles(r, ok)
    \/ \E r \in DOMAIN runs, ok \in BOOLEAN : BeginTransactionSettles(r, ok)
    \/ \E r \in DOMAIN runs, ok \in BOOLEAN, v \in Values : RunInTransactionSettles(r, ok, v)
    \/ \E r \in DOMAIN runs, ok \in BOOLEAN : CommitTransactionSettles(r, ok)
    \/ \E r \in DOMAIN runs, ok \in BOOLEAN : RollbackTransactionSettles(r, ok)
    \/ \E r \in DOMAIN runs, ok \in BOOLEAN : ReleaseSettles(r, ok)
    \/ ManagerReleased

\* The awaited call run r is suspended on settles, one way or the other.
Settles(r) ==
    \E ok \in BOOLEAN, v \in Values :
        \/ QueryProvideSettles(r, ok)
        \/ QuerySettles(r, ok, v)
        \/ TransactionProvideSettles(r, ok)
        \/ BeginTransactionSettles(r, ok)
        \/ RunInTransactionSettles(r, ok, v)
        \/ CommitTransactionSettles(r, ok)
        \/ RollbackTransactionSettles(r, ok)
        \/ ReleaseSettles(r, ok)

Spec == Init /\ [][Next]_vars

\* The consumer of run r stops observing the stream while the run is in
\* flight.  The promise the bridge wraps cannot be cancelled: nothing of the
\* run changes.
Unsubscribe(r) ==
    /\ runs[r].pc # "done"
    /\ r \notin unsubscribed
    /\ unsubscribed' = unsubscribed \cup {r}
    /\ UNCHANGED <<useSingleDatabaseConnection, isReleased, queryRunnerProvider,
                   providersCreated, streams, subscriptions, runs, dispatch>>

NextLive ==
    \/ Next
    \/ \E r \in DOMAIN runs : Unsubscribe(r)

\* Every awaited call of every run settles eventually; consumers may
\* unsubscribe at any time.
LiveSpec ==
    /\ Init
    /\ [][NextLive]_vars
    /\ \A r \in 1..MaxRuns : WF_vars(r \in DOMAIN runs /\ Settles(r))

\* One call of persist, remove, find, findAndCount or findOne on a Manager,
\* with any of the argument lists above.
DispatchInit ==
    /\ useSingleDatabaseConnection \in BOOLEAN
    /\ isReleased = FALSE
    /\ queryRunnerProvider = NoProvider
    /\ providersCreated = 0
    /\ streams = {}
    /\ subscriptions = [s \in Methods |-> 0]
    /\ runs = <<>>
    /\ unsubscribed = {}
    /\ call \in EntityCalls \cup FindCalls
    /\ forwarded = NotForwarded

DispatchNext == persist \/ remove \/ find \/ findAndCount \/ findOne

DispatchSpec == DispatchInit /\ [][DispatchNext]_vars

----------------------------------------------------------------------------
\* Reading a run's effect log.
Events(run, op, ev) == {i \in DOMAIN run.log : run.log[i].op = op /\ run.log[i].ev = ev}
Count(run, op, ev) == Cardinality(Events(run, op, ev))
Has(run, op, ev) == Events(run, op, ev) # {}
Calls(run, op) == Count(run, op, "call")

Acquired(run) == Has(run, "provide", "ok")
Done(run) == run.pc = "done"
IsTransaction(run) == run.kind = "transaction"
IsQuery(run) == run.kind = "query"
Failed(run) == Done(run) /\ run.outcome.type = "error"
Emitted(run, v) == Done(run) /\ run.outcome.type = "value" /\ run.outcome.value = v

\* The first awaited call of the run that rejected, "" if none did.
FirstError(run) ==
    LET errs == {i \in DOMAIN run.log : run.log[i].ev = "err"} IN
    IF errs = {} THEN ""
    ELSE run.log[CHOOSE i \in errs : \A j \in errs : i <= j].op

----------------------------------------------------------------------------
\* C1: a run of query or transaction never calls release() more than once;
\* release() is only called on the provider provide() was called on, with the
\* runner provide() resolved with; and a finished run whose provide()
\* succeeded has called release() exactly once, whatever failed in between.
C1_ReleaseMatchesProvide ==
    \A r \in DOMAIN runs :
        LET run == runs[r] IN
        /\ Calls(run, "release") <= 1
        /\ \A i \in Events(run, "release", "call") :
               \E c \in Events(run, "provide", "call"), k \in Events(run, "provide", "ok") :
                   /\ c < k /\ k < i
                   /\ run.log[i].provider = run.log[c].provider
                   /\ run.log[i].runner = run.log[k].runner
                   /\ run.log[i].runner = provide(run.log[c].provider)
        /\ Calls(run, "provide") <= 1
        /\ (Done(run) /\ Acquired(run)) => Calls(run, "release") = 1

\* A transaction whose unit of work and rollback both failed, and a query that
\* failed, have each finished with one release.
C1_Witness ==
    /\ \E r \in DOMAIN runs :
           /\ IsTransaction(runs[r]) /\ Done(runs[r])
           /\ Has(runs[r], "runInTransaction", "err")
           /\ Has(runs[r], "rollbackTransaction", "err")
           /\ Calls(runs[r], "release") = 1
    /\ \E r \in DOMAIN runs :
           /\ IsQuery(runs[r]) /\ Done(runs[r])
           /\ Has(runs[r], "query", "err")
           /\ Calls(runs[r], "release") = 1

\* A transaction run has taken its commit/rollback decision once it calls release.
Attempted(run) == IsTransaction(run) /\ Acquired(run) /\ Calls(run, "release") = 1

\* C2 as stated: in every transaction attempt exactly one of commitTransaction
\* and rollbackTransaction is invoked, never both, never neither.
C2_ExactlyOneOfCommitRollback ==
    \A r \in DOMAIN runs :
        Attempted(runs[r]) =>
            Calls(runs[r], "commitTransaction") + Calls(runs[r], "rollbackTransaction") = 1

\* C2 as the code has it: commitTransaction and rollbackTransaction are each
\* invoked at most once per run, rollback never before commit, at least one of
\* them by the time release is called, and both exactly when commitTransaction
\* itself rejected (the catch block then rolls back).
C2_CommitOrRollback ==
    \A r \in DOMAIN runs :
        LET run == runs[r] IN
        IsTransaction(run) =>
            /\ Calls(run, "commitTransaction") <= 1
            /\ Calls(run, "rollbackTransaction") <= 1
            /\ \A c \in Events(run, "commitTransaction", "call"),
                  b \in Events(run, "rollbackTransaction", "call") : c < b
            /\ (Calls(run, "commitTransaction") = 1 /\ Calls(run, "rollbackTransaction") = 1)
                   <=> Has(run, "commitTransaction", "err")
            /\ Attempted(run) =>
                   Calls(run, "commitTransaction") + Calls(run, "rollbackTransaction") >= 1

\* Two attempts: one whose commit failed (both called), and one whose begin
\* failed (rollback only) or whose commit succeeded (commit only).
C2_Witness ==
    /\ \E r \in DOMAIN runs :
           /\ Attempted(runs[r]) /\ Has(runs[r], "commitTransaction", "err")
           /\ Calls(runs[r], "rollbackTransaction") = 1
    /\ \E r \in DOMAIN runs :
           /\ Attempted(runs[r])
           /\ \/ Has(runs[r], "beginTransaction", "err")
              \/ Has(runs[r], "commitTransaction", "ok")

\* C3: a transaction run whose unit of work fails never calls
\* commitTransaction, calls rollbackTransaction exactly once, and ends the
\* stream with a failure, never with a value.
C3_FailedWorkRollsBack ==
    \A r \in DOMAIN runs :
        LET run == runs[r] IN
        (IsTransaction(run) /\ Has(run, "runInTransaction", "err")) =>
            /\ Calls(run, "commitTransaction") = 0
            /\ Calls(run, "rollbackTransaction") = 1
            /\ run.outcome.type # "value"
            /\ Done(run) => Failed(run)

C3_Witness ==
    \E r \in DOMAIN runs :
        /\ IsTransaction(runs[r]) /\ Has(runs[r], "runInTransaction", "err")
        /\ Has(runs[r], "rollbackTransaction", "ok")
        /\ Has(runs[r], "release", "ok")
        /\ Failed(runs[r])

\* The value the unit of work of a run resolved with.
WorkResult(run) ==
    run.log[CHOOSE i \in Events(run, "runInTransaction", "ok") : TRUE].value

\* C4 as stated: a transaction run whose unit of work resolves calls
\* commitTransaction exactly once, never rollbackTransaction, and the stream
\* resolves with the unit of work's result.
C4_ResolvedWorkCommits ==
    \A r \in DOMAIN runs :
        LET run == runs[r] IN
        (IsTransaction(run) /\ Has(run, "runInTransaction", "ok")) =>
            /\ Calls(run, "commitTransaction") = 1
            /\ Calls(run, "rollbackTransaction") = 0
            /\ Done(run) => Emitted(run, WorkResult(run))

\* C4 as the code has it: a transaction run whose unit of work resolves calls
\* commitTransaction exactly once; rollbackTransaction is called, once, only
\* if that commit rejects; the stream resolves with the unit of work's result
\* if commit and release both succeed, and fails otherwise.
C4_ResolvedWorkCommitsUnlessCommitFails ==
    \A r \in DOMAIN runs :
        LET run == runs[r] IN
        (IsTransaction(run) /\ Has(run, "runInTransaction", "ok")) =>
            /\ Calls(run, "commitTransaction") = 1
            /\ Calls(run, "rollbackTransaction") =
                   IF Has(run, "commitTransaction", "err") THEN 1 ELSE 0
            /\ Done(run) =>
                   IF Has(run, "commitTransaction", "ok") /\ Has(run, "release", "ok")
                   THEN Emitted(run, WorkResult(run))
                   ELSE Failed(run)

C4_Witness ==
    \E r \in DOMAIN runs :
        /\ IsTransaction(runs[r]) /\ Has(runs[r], "runInTransaction", "ok")
        /\ WorkResult(runs[r]) = 1
        /\ Has(runs[r], "commitTransaction", "ok")
        /\ Calls(runs[r], "rollbackTransaction") = 0
        /\ Has(runs[r], "release", "ok")
        /\ Emitted(runs[r], 1)

\* C5: when runner.query, beginTransaction, the unit of work or
\* commitTransaction is the first call of a run to fail, the finished run's
\* stream fails with that call's error, whatever rollbackTransaction and
\* release do afterwards.
C5_OriginalErrorDelivered ==
    \A r \in DOMAIN runs :
        LET run == runs[r] IN
        (Done(run) /\ FirstError(run) \in {"query", "beginTransaction",
                                           "runInTransaction", "commitTransaction"}) =>
            /\ Failed(run)
            /\ run.outcome.error = ErrorOf(FirstError(run))

\* A run that the released-manager guard rejected did nothing else.
RejectedAsReleased(run) ==
    /\ Done(run) /\ Failed(run)
    /\ run.outcome.error = EntityManagerAlreadyReleasedError
    /\ run.log = <<>>
    /\ run.queryRunnerProvider = NoProvider

\* C6: in single-connection mode, a run of query or transaction that starts
\* when the Manager is released fails in that same step with the
\* released-manager error, constructs no provider and makes no call at all
\* (provide, query, beginTransaction, the unit of work, commit, rollback,
\* release), and nothing is ever called in that run afterwards.
C6_ReleasedFailsWithoutAcquiring ==
    [][/\ (useSingleDatabaseConnection /\ isReleased /\ Len(runs') > Len(runs)) =>
              /\ RejectedAsReleased(runs'[Len(runs')])
              /\ providersCreated' = providersCreated
       /\ \A r \in DOMAIN runs : RejectedAsReleased(runs[r]) => runs'[r] = runs[r]]_vars

\* A query run and a transaction run both rejected by the guard.
C6_Witness ==
    /\ useSingleDatabaseConnection /\ isReleased
    /\ \E r \in DOMAIN runs : IsQuery(runs[r]) /\ RejectedAsReleased(runs[r])
    /\ \E r \in DOMAIN runs : IsTransaction(runs[r]) /\ RejectedAsReleased(runs[r])

\* The runs of stream s.
RunsOf(s) == {r \in DOMAIN runs : runs[r].kind = s}

\* The value a finished run's own query or unit of work resolved with.
OwnResult(run) ==
    LET op == IF IsQuery(run) THEN "query" ELSE "runInTransaction" IN
    run.log[CHOOSE i \in Events(run, op, "ok") : TRUE].value

\* C7: every subscription to a stream is one execution of its closure, so a
\* stream subscribed n times has n runs; every run that passes the guard
\* makes its own provide() call and, once finished after acquiring, its own
\* release() call; and a value a run emits is the one its own query or unit
\* of work resolved with, never another run's.
C7_EachSubscriptionRunsAgain ==
    /\ \A s \in Methods : Cardinality(RunsOf(s)) = subscriptions[s]
    /\ \A r \in DOMAIN runs :
           LET run == runs[r] IN
           /\ ~RejectedAsReleased(run) => Calls(run, "provide") = 1
           /\ (Done(run) /\ Acquired(run)) => Calls(run, "release") = 1
           /\ (Done(run) /\ run.outcome.type = "value") =>
                  /\ Has(run, IF IsQuery(run) THEN "query" ELSE "runInTransaction", "ok")
                  /\ run.outcome.value = OwnResult(run)

\* One stream subscribed twice: two finished runs, each with its own
\* provide/release pair, one emitting a value and the other failing.
C7_Witness ==
    \E s \in streams :
        /\ subscriptions[s] = 2
        /\ \E r1, r2 \in RunsOf(s) :
               /\ r1 # r2
               /\ Calls(runs[r1], "provide") = 1 /\ Calls(runs[r1], "release") = 1
               /\ Calls(runs[r2], "provide") = 1 /\ Calls(runs[r2], "release") = 1
               /\ Emitted(runs[r1], 1)
               /\ Failed(runs[r2])

\* C8: calling query(...) or transaction(...) does no work: a stream nobody
\* has subscribed to has no run of its closure (no guard evaluated, no
\* provide(), no runner call, no unit of work), and as long as no run exists
\* no provider has been constructed by a call.
C8_ColdUntilSubscribed ==
    /\ \A s \in Methods : subscriptions[s] = 0 => RunsOf(s) = {}
    /\ runs = <<>> => providersCreated = 0 /\ queryRunnerProvider = NoProvider

\* query(...) was called and never subscribed to: it has no run, while the
\* stream of transaction(...) was subscribed to and is running.
C8_Witness ==
    /\ streams = {"query", "transaction"}
    /\ subscriptions["query"] = 0 /\ subscriptions["transaction"] >= 1
    /\ RunsOf("query") = {} /\ RunsOf("transaction") # {}

\* Position of an effect in the order of the transaction closure.
Rank(op) ==
    CASE op = "provide" -> 1
      [] op = "beginTransaction" -> 2
      [] op = "runInTransaction" -> 3
      [] op = "commitTransaction" -> 4
      [] op = "rollbackTransaction" -> 5
      [] op = "release" -> 6

\* C9: in every run of transaction the effects that occur, occur in the order
\* provide, beginTransaction, unit of work, commitTransaction and/or
\* rollbackTransaction, release; every call is awaited, so nothing is called
\* before the call before it has settled; release is called only right after
\* commitTransaction resolved or rollbackTransaction settled; and a run that
\* acquired a runner settles its stream only after release has settled.
C9_TransactionOrder ==
    \A r \in DOMAIN runs :
        LET run == runs[r]
            log == run.log
        IN
        IsTransaction(run) =>
            /\ \A i, j \in DOMAIN log : i < j => Rank(log[i].op) <= Rank(log[j].op)
            /\ \A i \in DOMAIN log :
                   (log[i].ev = "call" /\ i < Len(log)) =>
                       log[i + 1].op = log[i].op /\ log[i + 1].ev # "call"
            /\ \A i \in Events(run, "release", "call") :
                   /\ i > 1
                   /\ \/ log[i - 1].op = "commitTransaction" /\ log[i - 1].ev = "ok"
                      \/ log[i - 1].op = "rollbackTransaction" /\ log[i - 1].ev # "call"
            /\ (Acquired(run) /\ run.outcome.type # "pending") =>
                   /\ log[Len(log)].op = "release"
                   /\ log[Len(log)].ev # "call"

\* The effects of a run, without their arguments.
Effects(run) == [i \in DOMAIN run.log |-> <<run.log[i].op, run.log[i].ev>>]

\* provide, beginTransaction, unit of work, commitTransaction, release, then
\* the stream emits the unit of work's result.
C9_Witness ==
    \E r \in DOMAIN runs :
        /\ Effects(runs[r]) =
               << <<"provide", "call">>, <<"provide", "ok">>,
                  <<"beginTransaction", "call">>, <<"beginTransaction", "ok">>,
                  <<"runInTransaction", "call">>, <<"runInTransaction", "ok">>,
                  <<"commitTransaction", "call">>, <<"commitTransaction", "ok">>,
                  <<"release", "call">>, <<"release", "ok">> >>
        /\ Emitted(runs[r], 1)

\* The runs that got as far as choosing their provider.
Selected == {r \in DOMAIN runs : runs[r].queryRunnerProvider # NoProvider}

\* C10: in single-connection mode no provider exists before the first run
\* that passes the guard, that run constructs the Manager's one provider, and
\* every run uses it: at most one provider is ever constructed.  In per-call
\* mode the Manager holds no provider and every run constructs its own, which
\* no other run uses.
C10_OneProviderOrOnePerRun ==
    /\ useSingleDatabaseConnection =>
           /\ providersCreated = IF Selected = {} THEN 0 ELSE 1
           /\ Selected = {} <=> queryRunnerProvider = NoProvider
           /\ \A r \in Selected : runs[r].queryRunnerProvider = queryRunnerProvider
    /\ ~useSingleDatabaseConnection =>
           /\ queryRunnerProvider = NoProvider
           /\ providersCreated = Cardinality(Selected)
           /\ \A r1, r2 \in Selected :
                  r1 # r2 => runs[r1].queryRunnerProvider # runs[r2].queryRunnerProvider

\* Two runs on one Manager in single-connection mode share the one provider
\* that was constructed.
C10_Witness ==
    /\ useSingleDatabaseConnection
    /\ Cardinality(Selected) = 2
    /\ providersCreated = 1
    /\ \A r \in Selected : runs[r].queryRunnerProvider = queryRunnerProvider

\* An optional argument is present when it was passed and is not undefined.
Present(value) == value.kind # "undefined"

\* The two optional arguments of the find* call at hand.
FindConditions == Param(call.args, 2)
FindOptions == Param(call.args, 3)

\* C11: find, findAndCount and findOne forward to the Repository of the given
\* entity class: both optional arguments when both are present, the one that
\* is present when exactly one is (also when it is present but falsy, and
\* also when it is the options with the conditions absent), and nothing when
\* neither is.
C11_ForwardsWhatIsPresent ==
    (forwarded # NotForwarded /\ call.method \in {"find", "findAndCount", "findOne"}) =>
        /\ forwarded.method = call.method
        /\ forwarded.target = call.args[1]
        /\ forwarded.args =
               IF Present(FindConditions) /\ Present(FindOptions)
               THEN <<FindConditions, FindOptions>>
               ELSE IF Present(FindConditions) THEN <<FindConditions>>
               ELSE IF Present(FindOptions) THEN <<FindOptions>>
               ELSE <<>>

\* C12: persist and remove with one argument go to the Repository of that
\* argument's runtime type and pass the argument; with two arguments they go
\* to the Repository of the first argument, whatever the runtime type of the
\* second, and pass the second.
C12_TargetFromTagOrRuntimeType ==
    (forwarded # NotForwarded /\ call.method \in {"persist", "remove"}) =>
        /\ forwarded.method = call.method
        /\ Len(call.args) = 1 =>
               /\ forwarded.target.kind = "class"
               /\ forwarded.target.name = call.args[1].ctor
               /\ forwarded.args = <<call.args[1]>>
        /\ Len(call.args) = 2 =>
               /\ forwarded.target = call.args[1]
               /\ forwarded.args = <<call.args[2]>>

\* persist(User, post): the tag differs from the entity's runtime type and the
\* call went to the tag's Repository.
C12_Witness ==
    /\ call.method = "persist"
    /\ call.args = <<Class("User"), Entity("Post", "post")>>
    /\ forwarded.target = Class("User")
    /\ forwarded.args = <<Entity("Post", "post")>>

\* C13: a run of query that acquired a runner settles its stream only once
\* its release() call has been made and has settled; a value it emits is the
\* one runner.query resolved with, emitted after release() resolved; and a
\* run whose query and release both resolved emits that value, any other
\* finished run fails.
C13_QuerySettlesAfterRelease ==
    \A r \in DOMAIN runs :
        LET run == runs[r]
            log == run.log
        IN
        (IsQuery(run) /\ Acquired(run)) =>
            /\ run.outcome.type # "pending" =>
                   /\ Calls(run, "release") = 1
                   /\ log[Len(log)].op = "release"
                   /\ log[Len(log)].ev # "call"
            /\ run.outcome.type = "value" =>
                   /\ Has(run, "query", "ok")
                   /\ run.outcome.value = OwnResult(run)
                   /\ Has(run, "release", "ok")
            /\ Done(run) =>
                   IF Has(run, "query", "ok") /\ Has(run, "release", "ok")
                   THEN Emitted(run, OwnResult(run))
                   ELSE Failed(run)

\* One query run emitted the value runner.query returned after its release
\* resolved, and another failed with the query's error after its release
\* resolved.
C13_Witness ==
    /\ \E r \in DOMAIN runs :
           /\ IsQuery(runs[r]) /\ Has(runs[r], "query", "ok")
           /\ Has(runs[r], "release", "ok")
           /\ Emitted(runs[r], 1)
    /\ \E r \in DOMAIN runs :
           /\ IsQuery(runs[r]) /\ Has(runs[r], "query", "err")
           /\ Has(runs[r], "release", "ok")
           /\ Failed(runs[r]) /\ runs[r].outcome.error = ErrorOf("query")

\* C14: in per-call mode a run of query or transaction that starts, starts by
\* calling provide() on a provider of its own, whether the Manager is released
\* or not; no run ever fails with the released-manager error.
C14_PerCallIgnoresReleased ==
    /\ [](~useSingleDatabaseConnection =>
              \A r \in DOMAIN runs :
                  /\ runs[r].outcome.error # EntityManagerAlreadyReleasedError
                  /\ Calls(runs[r], "provide") = 1)
    /\ [][(~useSingleDatabaseConnection /\ Len(runs') > Len(runs)) =>
              /\ Effects(runs'[Len(runs')]) = << <<"provide", "call">> >>
              /\ runs'[Len(runs')].outcome.type = "pending"
              /\ providersCreated' = providersCreated + 1]_vars

\* Per-call mode, the Manager is released: a run is awaiting provide(), and a
\* subscription made now starts a run that calls provide() as well.
C14_Witness ==
    /\ ~useSingleDatabaseConnection /\ isReleased
    /\ \E r \in DOMAIN runs : runs[r].pc = "provide"
    /\ ENABLED (\E s \in streams : Subscribe(s) /\ runs'[Len(runs')].pc = "provide")

\* C15: in single-connection mode, once the Manager is released, every run
\* that passed the guard before (it has made a call) is untouched by the
\* flip: it never fails with the released-manager error, while in flight it
\* can still take its next step, it never calls release() twice, and once
\* finished after acquiring a runner it has called release() exactly once.
C15_FlipDoesNotAbort ==
    (useSingleDatabaseConnection /\ isReleased) =>
        \A r \in DOMAIN runs :
            LET run == runs[r] IN
            run.log # <<>> =>
                /\ run.outcome.error # EntityManagerAlreadyReleasedError
                /\ ~Done(run) => ENABLED Settles(r)
                /\ Calls(run, "release") <= 1
                /\ (Done(run) /\ Acquired(run)) => Calls(run, "release") = 1

\* Single-connection mode, the Manager is released: a query run that was
\* rejected by the guard shows the flip happened, while a transaction run
\* that passed the guard earlier is still in flight, has acquired its runner
\* and called release() once.
C15_Witness ==
    /\ useSingleDatabaseConnection /\ isReleased
    /\ \E r \in DOMAIN runs :
           /\ IsTransaction(runs[r]) /\ Acquired(runs[r])
           /\ runs[r].pc = "release" /\ Calls(runs[r], "release") = 1
           /\ \E q \in DOMAIN runs :
                  q > r /\ IsQuery(runs[q]) /\ RejectedAsReleased(runs[q])

\* A run that has begun its work on the runner and has neither committed,
\* rolled back nor released: a transaction whose beginTransaction resolved, or
\* a query whose runner.query is under way.
Open(run) ==
    /\ \/ Has(run, "beginTransaction", "ok")
       \/ IsQuery(run) /\ Calls(run, "query") = 1
    /\ Calls(run, "commitTransaction") = 0
    /\ Calls(run, "rollbackTransaction") = 0
    /\ Calls(run, "release") = 0

\* C16: in single-connection mode nothing waits for an open run.  While a run
\* is open, a subscription starts another run, which calls provide() on the
\* same provider; another run awaiting provide() is handed the same runner
\* and calls beginTransaction() or query on it; and every other run in flight
\* can take its next step; all of it with the open run still open.
C16_NothingWaitsForAnOpenRun ==
    useSingleDatabaseConnection =>
        \A r1 \in DOMAIN runs :
            Open(runs[r1]) =>
                /\ (Len(runs) < MaxRuns /\ ~isReleased) =>
                       \A s \in streams :
                           ENABLED (/\ Subscribe(s)
                                    /\ runs'[Len(runs')].pc = "provide"
                                    /\ runs'[Len(runs')].queryRunnerProvider =
                                           runs[r1].queryRunnerProvider
                                    /\ runs'[r1] = runs[r1])
                /\ \A r2 \in DOMAIN runs \ {r1} :
                       /\ ~Done(runs[r2]) => ENABLED Settles(r2)
                       /\ runs[r2].pc = "provide" =>
                              ENABLED (/\ Settles(r2)
                                       /\ runs'[r2].pc \in {"beginTransaction", "query"}
                                       /\ runs'[r2].queryRunner = runs[r1].queryRunner
                                       /\ runs'[r1] = runs[r1])

\* Two transaction runs on the one provider and the one runner of a Manager in
\* single-connection mode: the first is inside its unit of work, the second,
\* started later, has called provide() and beginTransaction().
C16_Witness ==
    /\ useSingleDatabaseConnection
    /\ \E r1, r2 \in DOMAIN runs :
           /\ r1 < r2
           /\ IsTransaction(runs[r1]) /\ IsTransaction(runs[r2])
           /\ Open(runs[r1]) /\ runs[r1].pc = "runInTransaction"
           /\ Calls(runs[r2], "provide") = 1 /\ Calls(runs[r2], "beginTransaction") = 1
           /\ runs[r2].pc = "beginTransaction"
           /\ runs[r2].queryRunnerProvider = runs[r1].queryRunnerProvider
           /\ runs[r2].queryRunner = runs[r1].queryRunner

\* C17: when every awaited call settles eventually, every run that has
\* started finishes, and every run whose provide() resolved calls release(),
\* whether or not its consumer has unsubscribed meanwhile.
C17_RunsCompleteUnobserved ==
    \A r \in 1..MaxRuns :
        /\ (r \in DOMAIN runs) ~> (r \in DOMAIN runs /\ Done(runs[r]))
        /\ (r \in DOMAIN runs /\ Acquired(runs[r])) ~>
               (r \in DOMAIN runs /\ Calls(runs[r], "release") = 1)

\* A run whose consumer unsubscribed while it was in flight has acquired its
\* runner, released it and finished.
C17_Witness ==
    \E r \in unsubscribed :
        /\ Done(runs[r]) /\ Acquired(runs[r])
        /\ Has(runs[r], "release", "ok")
        /\ Calls(runs[r], "release") = 1

\* C18: a transaction run whose beginTransaction() rejected never invokes the
\* unit of work nor commitTransaction(), invokes rollbackTransaction() once,
\* right after the rejection and on the runner it acquired, then release()
\* once, after the rollback settled, and fails.
C18_FailedBeginRollsBack ==
    \A r \in DOMAIN runs :
        LET run == runs[r]
            log == run.log
        IN
        (IsTransaction(run) /\ Has(run, "beginTransaction", "err")) =>
            /\ Calls(run, "runInTransaction") = 0
            /\ Calls(run, "commitTransaction") = 0
            /\ Calls(run, "rollbackTransaction") = 1
            /\ \A i \in Events(run, "rollbackTransaction", "call") :
                   /\ log[i - 1].op = "beginTransaction" /\ log[i - 1].ev = "err"
                   /\ log[i].runner = provide(run.queryRunnerProvider)
            /\ Calls(run, "release") =
                   IF run.pc = "rollbackTransaction" THEN 0 ELSE 1
            /\ run.outcome.type # "value"
            /\ Done(run) => Failed(run)

\* beginTransaction rejected, the rollback and the release that followed
\* resolved, and the stream failed with the error of beginTransaction.
C18_Witness ==
    \E r \in DOMAIN runs :
        /\ Effects(runs[r]) =
               << <<"provide", "call">>, <<"provide", "ok">>,
                  <<"beginTransaction", "call">>, <<"beginTransaction", "err">>,
                  <<"rollbackTransaction", "call">>, <<"rollbackTransaction", "ok">>,
                  <<"release", "call">>, <<"release", "ok">> >>
        /\ Failed(runs[r]) /\ runs[r].outcome.error = ErrorOf("beginTransaction")

\* C19: a run of query or transaction whose provide() rejected has done
\* nothing but that call (no query, beginTransaction, unit of work,
\* commitTransaction, rollbackTransaction or release), holds no runner, and
\* has failed its stream with the error provide() rejected with.
C19_FailedProvideDoesNothingElse ==
    \A r \in DOMAIN runs :
        LET run == runs[r] IN
        Has(run, "provide", "err") =>
            /\ Effects(run) = << <<"provide", "call">>, <<"provide", "err">> >>
            /\ run.queryRunner = NoRunner
            /\ Failed(run)
            /\ run.outcome.error = ErrorOf("provide")

\* A query run and a transaction run whose provide() rejected.
C19_Witness ==
    /\ \E r \in DOMAIN runs :
           IsQuery(runs[r]) /\ Has(runs[r], "provide", "err") /\ Failed(runs[r])
    /\ \E r \in DOMAIN runs :
           IsTransaction(runs[r]) /\ Has(runs[r], "provide", "err") /\ Failed(runs[r])

====
